---- MODULE Spec2Model ----
(***************************************************************************)
(* Model of the hydromet4api example scripts: balance.py, cota.py,         *)
(* pozos_historicos.py, pronostico.py and grafico_pozos.py.                *)
(*                                                                         *)
(* A JSON record is a function from the keys it carries to numbers: a key  *)
(* that is not in DOMAIN r is a field the record lacks (a NaN cell once    *)
(* the record is a row of a DataFrame).  A DataFrame is the sequence of    *)
(* its rows; its columns are the union of the keys of its rows.  Dates are *)
(* day ordinals 1, 2, ...; None is 0.                                      *)
(***************************************************************************)
EXTENDS Integers, Sequences, FiniteSets, TLC

\* ------------------------------------------------------------------ bounds
\* one-zone runs (reconciliation and per-zone means)
ZMaxLen == 1
ZMaxDate == 2
ZMaxVal == 2
\* two-zone runs (system-wide evolution)
EMaxLen == 1
EMaxDate == 2
\* head series of cota.py and level series of the wells
CMaxLen == 1
CMaxDate == 2
\* features of the wells GeoJSON
GMaxLen == 2
\* one-zone runs over unsorted series with repeated dates
OMaxLen == 2
OMaxDate == 2

\* two-zone runs of balance.py over series that repeat dates: rows per series
VMaxLen == 2

\* one-zone runs of balance.py over records with any of the variables: rows
\* per series
KMaxLen == 1

\* ------------------------------------------------------------ data helpers
None == 0

Variables == <<"value_step_in", "value_step_out", "value_step_rate">>

\* every JSON record with a date in D and, for each key of a subset of C, a
\* value in V
Registros(D, C, V) ==
  UNION { { r \in [ {"date"} \cup S -> D \cup V ] :
              r["date"] \in D /\ \A c \in S : r[c] \in V } : S \in SUBSET C }

SeqsUpTo(S, n) == UNION { [1..k -> S] : k \in 0..n }

\* pd.DataFrame(list of dicts): df.columns and df.empty
Columns(df) == UNION { DOMAIN df[k] : k \in DOMAIN df }

Empty(df) == Len(df) = 0 \/ Columns(df) = {}

Max(S) == CHOOSE x \in S : \A y \in S : y <= x

Dates(df) == { df[k]["date"] : k \in DOMAIN df }

\* the lists that hold the records of s in another order
Permutaciones(s) ==
  IF Len(s) = 0 THEN {s}
  ELSE { [k \in DOMAIN s |-> s[f[k]]] : f \in Permutations(DOMAIN s) }

InsertarMutante(s, r) == Append(s, r)

\* df.sort_values('date') places a row after the rows whose date is not greater
Insertar(s, r) ==
  LET menores == SelectSeq(s, LAMBDA x : x["date"] <= r["date"])
      resto == SelectSeq(s, LAMBDA x : ~(x["date"] <= r["date"]))
  IN  menores \o <<r>> \o resto

SortValuesMutante(df) == [k \in 1..Len(df) |-> df[Len(df) + 1 - k]]

RECURSIVE SortValues(_)
SortValues(df) ==
  IF Len(df) = 0 THEN <<>>
  ELSE Insertar(SortValues(SubSeq(df, 1, Len(df) - 1)), df[Len(df)])

\* ------------------------------------------------ balance.py: procesar_datos
FechaTransicionMutante(df_hist, df_modelo) ==
  IF ~Empty(df_hist) THEN Max(Dates(df_hist)) ELSE None

FechaTransicion(df_hist, df_modelo) ==
  IF ~Empty(df_hist) /\ ~Empty(df_modelo) THEN Max(Dates(df_hist)) ELSE None

OrdenarMutante(df) == df

Ordenar(df) ==
  IF ~Empty(df) /\ "date" \in Columns(df) THEN SortValues(df) ELSE df

\* sort_values('date') runs with the default kind='quicksort', which is not a
\* stable sort: rows of one date come out in an order the call does not fix.
\* The outcomes are those of the sort over every arrangement of the rows.
ResultadosOrdenar(df) == { Ordenar(p) : p \in Permutaciones(df) }

procesar_datos(datos_historicos, datos_metamodelo) ==
  LET df_hist == Ordenar(datos_historicos)
      df_modelo == Ordenar(datos_metamodelo)
  IN  [df_hist |-> df_hist, df_modelo |-> df_modelo,
       fecha_transicion |-> FechaTransicion(df_hist, df_modelo)]

\* the outcomes of procesar_datos, one for each outcome of the two sorts
ResultadosProcesar(datos_historicos, datos_metamodelo) ==
  { procesar_datos(dh, dm) : dh \in ResultadosOrdenar(datos_historicos),
                             dm \in ResultadosOrdenar(datos_metamodelo) }

\* ------------------------------------------- balance.py: per-zone charts
\* df_modelo[df_modelo['date'] > fecha_transicion], or df_modelo without a
\* transition
DfFuturoMutante(df_modelo, fecha_transicion) ==
  IF fecha_transicion # None
  THEN SelectSeq(df_modelo, LAMBDA r : r["date"] >= fecha_transicion)
  ELSE df_modelo

DfFuturo(df_modelo, fecha_transicion) ==
  IF fecha_transicion # None
  THEN SelectSeq(df_modelo, LAMBDA r : r["date"] > fecha_transicion)
  ELSE df_modelo

\* the rows behind the MODFLOW bars and the Metamodelo bars of one variable
TrazaHist(df_hist, variable) ==
  IF ~Empty(df_hist) /\ variable \in Columns(df_hist) THEN df_hist ELSE <<>>

TrazaModeloMutante(df_modelo, fecha_transicion, variable) ==
  IF ~Empty(df_modelo) /\ variable \in Columns(df_modelo) /\ fecha_transicion # None
  THEN DfFuturo(df_modelo, fecha_transicion)
  ELSE <<>>

TrazaModelo(df_modelo, fecha_transicion, variable) ==
  IF ~Empty(df_modelo) /\ variable \in Columns(df_modelo)
  THEN DfFuturo(df_modelo, fecha_transicion)
  ELSE <<>>

crear_grafico_balance(df_hist, df_modelo, fecha_transicion, variable) ==
  [variable |-> variable,
   hist |-> TrazaHist(df_hist, variable),
   modelo |-> TrazaModelo(df_modelo, fecha_transicion, variable),
   marca |-> fecha_transicion]

crear_grafico_combinado(df_hist, df_modelo, fecha_transicion) ==
  [hist |-> [k \in 1..Len(Variables) |-> TrazaHist(df_hist, Variables[k])],
   modelo |-> [k \in 1..Len(Variables) |->
                 TrazaModelo(df_modelo, fecha_transicion, Variables[k])],
   marca |-> fecha_transicion]

\* ------------------------------------------- balance.py: aggregate charts
\* datos_por_zona is the insertion-ordered dict zona -> (df_hist, df_modelo),
\* a sequence of entries [zona, df_hist, df_modelo].  A mean is the pair
\* <<sum, count>> of the cells that are not NaN; count 0 is the mean NaN.
Cero == <<0, 1>>

\* pd.concat([df_hist, df_modelo], ignore_index=True)
Concat(e) == e.df_hist \o e.df_modelo

RECURSIVE SumaCol(_, _)
SumaCol(df, col) ==
  IF Len(df) = 0 THEN 0
  ELSE (IF col \in DOMAIN df[1] THEN df[1][col] ELSE 0) + SumaCol(Tail(df), col)

\* df[col].mean(): NaN cells are skipped
Mean(df, col) ==
  <<SumaCol(df, col), Len(SelectSeq(df, LAMBDA r : col \in DOMAIN r))>>

MeanOrZero(df, col) == IF col \in Columns(df) THEN Mean(df, col) ELSE Cero

crear_grafico_comparacion_zonas(datos_por_zona) ==
  LET con == SelectSeq(datos_por_zona, LAMBDA e : ~Empty(Concat(e)))
  IN  [k \in 1..Len(con) |->
         [zona |-> con[k].zona,
          step_in |-> MeanOrZero(Concat(con[k]), "value_step_in"),
          step_out |-> MeanOrZero(Concat(con[k]), "value_step_out"),
          step_rate |-> MeanOrZero(Concat(con[k]), "value_step_rate")]]

RECURSIVE SumaDif(_)
SumaDif(df) ==
  IF Len(df) = 0 THEN 0
  ELSE df[1]["value_step_in"] - df[1]["value_step_out"] + SumaDif(Tail(df))

\* (df['value_step_in'] - df['value_step_out']).mean(): a row that lacks one
\* of the two cells gives NaN and is skipped by the mean
NetoMutante(df) ==
  IF "value_step_in" \in Columns(df) /\ "value_step_out" \in Columns(df)
  THEN LET a == Mean(df, "value_step_in")
           b == Mean(df, "value_step_out")
       IN  <<a[1] * b[2] - b[1] * a[2], a[2] * b[2]>>
  ELSE Cero

Neto(df) ==
  IF "value_step_in" \in Columns(df) /\ "value_step_out" \in Columns(df)
  THEN LET ambos == SelectSeq(df, LAMBDA r : "value_step_in" \in DOMAIN r
                                            /\ "value_step_out" \in DOMAIN r)
       IN  <<SumaDif(ambos), Len(ambos)>>
  ELSE Cero

crear_grafico_balance_neto_zonas(datos_por_zona) ==
  LET con == SelectSeq(datos_por_zona, LAMBDA e : ~Empty(Concat(e)))
  IN  [k \in 1..Len(con) |->
         [zona |-> con[k].zona, neto |-> Neto(Concat(con[k]))]]

\* ---------------------------- balance.py: crear_grafico_evolucion_total
\* a float total: a number, or NaN once a NaN cell entered the sum
Num(n) == [nan |-> FALSE, v |-> n]

NaN == [nan |-> TRUE, v |-> 0]

Suma(a, b) == IF a.nan \/ b.nan THEN NaN ELSE Num(a.v + b.v)

\* balance of one row of df.iterrows(): 'value_step_in' in row asks for the
\* row's index, which is the columns of its DataFrame
BalanceFila(row, cols) ==
  IF "value_step_in" \in cols /\ "value_step_out" \in cols
  THEN IF "value_step_in" \in DOMAIN row /\ "value_step_out" \in DOMAIN row
       THEN Num(row["value_step_in"] - row["value_step_out"])
       ELSE NaN
  ELSE Num(0)

\* fechas.index(fecha)
Index(fechas, fecha) ==
  CHOOSE k \in 1..Len(fechas) :
    fechas[k] = fecha /\ \A j \in 1..(k - 1) : fechas[j] # fecha

AcumularFilaMutante(acc, fecha, balance) ==
  IF \A k \in 1..Len(acc.fechas) : acc.fechas[k] # fecha
  THEN [fechas |-> Append(acc.fechas, fecha),
        valores |-> Append(acc.valores, balance)]
  ELSE [acc EXCEPT !.valores[Index(acc.fechas, fecha)] = balance]

\* if fecha not in fechas: append, else valores[idx] += balance
AcumularFila(acc, fecha, balance) ==
  IF \A k \in 1..Len(acc.fechas) : acc.fechas[k] # fecha
  THEN [fechas |-> Append(acc.fechas, fecha),
        valores |-> Append(acc.valores, balance)]
  ELSE [acc EXCEPT !.valores[Index(acc.fechas, fecha)] = Suma(@, balance)]

RECURSIVE AcumularDf(_, _, _)
AcumularDf(acc, df, k) ==
  IF k > Len(df) THEN acc
  ELSE AcumularDf(AcumularFila(acc, df[k]["date"], BalanceFila(df[k], Columns(df))),
                  df, k + 1)

\* one iteration of the loop over datos_por_zona.items()
PasoZona(st, e) ==
  [hist |-> IF ~Empty(e.df_hist) /\ "date" \in Columns(e.df_hist)
            THEN AcumularDf(st.hist, e.df_hist, 1) ELSE st.hist,
   modelo |-> IF ~Empty(e.df_modelo) /\ "date" \in Columns(e.df_modelo)
              THEN AcumularDf(st.modelo, e.df_modelo, 1) ELSE st.modelo,
   fecha_transicion |->
     IF ~Empty(e.df_modelo) /\ "date" \in Columns(e.df_modelo) /\ ~Empty(e.df_hist)
     THEN Max(Dates(e.df_hist)) ELSE st.fecha_transicion]

RECURSIVE RecorrerZonas(_, _, _)
RecorrerZonas(st, datos_por_zona, k) ==
  IF k > Len(datos_por_zona) THEN st
  ELSE RecorrerZonas(PasoZona(st, datos_por_zona[k]), datos_por_zona, k + 1)

OrdenarParesMutante(acc) == acc

\* sorted(zip(fechas, valores)): the dates of an accumulator are distinct
RECURSIVE OrdenarPares(_)
OrdenarPares(acc) ==
  IF Len(acc.fechas) = 0 THEN acc
  ELSE LET k == CHOOSE i \in 1..Len(acc.fechas) :
                  \A j \in 1..Len(acc.fechas) : acc.fechas[i] <= acc.fechas[j]
           quitar(s) == SubSeq(s, 1, k - 1) \o SubSeq(s, k + 1, Len(s))
           resto == OrdenarPares([fechas |-> quitar(acc.fechas),
                                  valores |-> quitar(acc.valores)])
       IN  [fechas |-> <<acc.fechas[k]>> \o resto.fechas,
            valores |-> <<acc.valores[k]>> \o resto.valores]

\* the indices of fechas_modelo with f > fecha_transicion, in order
RECURSIVE Futuros(_, _, _)
Futuros(fechas, fecha_transicion, k) ==
  IF k > Len(fechas) THEN <<>>
  ELSE (IF fechas[k] > fecha_transicion THEN <<k>> ELSE <<>>)
       \o Futuros(fechas, fecha_transicion, k + 1)

VacioAcc == [fechas |-> <<>>, valores |-> <<>>]

crear_grafico_evolucion_total(datos_por_zona) ==
  LET st == RecorrerZonas([hist |-> VacioAcc, modelo |-> VacioAcc,
                           fecha_transicion |-> None], datos_por_zona, 1)
      h == OrdenarPares(st.hist)
      m == OrdenarPares(st.modelo)
      ft == st.fecha_transicion
      idx == IF ft # None THEN Futuros(m.fechas, ft, 1)
             ELSE [k \in 1..Len(m.fechas) |-> k]
  IN  [fechas_hist |-> h.fechas, valores_hist |-> h.valores,
       fechas_futuro |-> [k \in 1..Len(idx) |-> m.fechas[idx[k]]],
       valores_futuro |-> [k \in 1..Len(idx) |-> m.valores[idx[k]]],
       fecha_transicion |-> ft]

\* ------------------------------------------------------------------- state
VARIABLES
  programa,        \* the script that runs
  pc,              \* its position
  zonas,           \* the fetched listing
  i,               \* index in the listing of the zone (well) being processed
  tipo_serie,      \* cota.py: the series type being fetched for the zone
  hist,            \* obtener_datos_historicos' result for the current zone
  modelo,          \* obtener_datos_metamodelo's result for the current zone
  datos_por_zona,  \* balance.py: zona -> (df_hist, df_modelo), insertion order
  procesados,      \* per zone reached by the loop: what procesar_datos returned
                   \* and the figures built from it
  agregados,       \* the aggregate figures, once built
  peticiones,      \* the HTTP requests issued so far, in order
  archivos,        \* the image files written so far, in order
  mensajes         \* the diagnostics printed so far

vars == <<programa, pc, zonas, i, tipo_serie, hist, modelo, datos_por_zona, procesados,
          agregados, peticiones, archivos, mensajes>>

\* an HTTP response: its status code and its JSON body
Fallo == [status |-> 500, json |-> <<>>]

Respuestas(S) == { [status |-> 200, json |-> x] : x \in S } \cup {Fallo}

\* a request: its endpoint, its zone or well, the status of the response and
\* whether the list it carried had records
Peticion(url, zona, r) ==
  [url |-> url, zona |-> zona, status |-> r.status, con_filas |-> Len(r.json) > 0]

Archivo(zona, tipo) == [zona |-> zona, tipo |-> tipo]

InitVars(p) ==
  /\ programa = p
  /\ pc = "inicio"
  /\ zonas = <<>>
  /\ i = 0
  /\ tipo_serie = ""
  /\ hist = <<>>
  /\ modelo = <<>>
  /\ datos_por_zona = <<>>
  /\ procesados = <<>>
  /\ agregados = <<>>
  /\ peticiones = <<>>
  /\ archivos = <<>>
  /\ mensajes = <<>>

\* --------------------------------- balance.py: generar_graficos_todas_zonas
ZonaActualMutante == zonas[Len(zonas) + 1 - i]

\* for zona in zonas: the zone of the current iteration
ZonaActual == zonas[i]

\* obtener_zonas / obtener_datos_historicos / obtener_datos_metamodelo: the
\* body on status 200, the empty list otherwise
CuerpoOVacio(r) == IF r.status = 200 THEN r.json ELSE <<>>

\* where the caller stands after a fetch: the fetch functions return on every
\* status, they raise nothing
TrasPeticionMutante(r, siguiente) == IF r.status = 200 THEN siguiente ELSE "fin"

\* a caller that would fetch again after a failure
TrasPeticionReintento(r, siguiente) ==
  IF r.status = 200 THEN siguiente
  ELSE IF siguiente = "modelo" THEN "hist" ELSE "modelo"

TrasPeticion(r, siguiente) == siguiente

\* what a DataFrame holds after it was passed to a chart function: the chart
\* functions filter into new frames (df_modelo[...], pd.concat) and read rows
\* (iterrows); none assigns to an argument or calls an in-place method
TrasGraficarMutante(df) ==
  IF Len(df) > 0 THEN Tail(df) ELSE df

TrasGraficar(df) == df

\* datos_por_zona after the three aggregate charts were built from it
DatosTrasGraficos(d) ==
  [k \in 1..Len(d) |->
     [zona |-> d[k].zona, df_hist |-> TrasGraficar(d[k].df_hist),
      df_modelo |-> TrasGraficar(d[k].df_modelo)]]

\* zonas = obtener_zonas(); if not zonas: print, return
BalanceObtenerZonas(L) ==
  /\ programa = "balance" /\ pc = "inicio"
  /\ \E r \in Respuestas(L) :
       /\ zonas' = CuerpoOVacio(r)
       /\ peticiones' = Append(peticiones, Peticion("zones", "", r))
       /\ IF Len(zonas') = 0
          THEN /\ mensajes' = Append(mensajes, "No se pudieron obtener las zonas")
               /\ pc' = "fin"
               /\ i' = i
          ELSE /\ mensajes' = mensajes
               /\ pc' = "hist"
               /\ i' = 1
  /\ UNCHANGED <<programa, tipo_serie, hist, modelo, datos_por_zona, procesados,
                 agregados, archivos>>

\* hist = obtener_datos_historicos(zona_nombre)
BalanceObtenerHist(S) ==
  /\ programa = "balance" /\ pc = "hist"
  /\ \E r \in Respuestas(S) :
       /\ hist' = CuerpoOVacio(r)
       /\ peticiones' = Append(peticiones, Peticion("balance-historico", ZonaActual, r))
       /\ pc' = TrasPeticion(r, "modelo")
  /\ UNCHANGED <<programa, zonas, i, tipo_serie, modelo, datos_por_zona, procesados,
                 agregados, archivos, mensajes>>

\* modelo = obtener_datos_metamodelo(zona_nombre)
BalanceObtenerModelo(S) ==
  /\ programa = "balance" /\ pc = "modelo"
  /\ \E r \in Respuestas(S) :
       /\ modelo' = CuerpoOVacio(r)
       /\ peticiones' = Append(peticiones, Peticion("balance-modelacion", ZonaActual, r))
       /\ pc' = TrasPeticion(r, "procesar")
  /\ UNCHANGED <<programa, zonas, i, tipo_serie, hist, datos_por_zona, procesados,
                 agregados, archivos, mensajes>>

NombreCorto(variable) ==
  CASE variable = "value_step_in" -> "balance_step_in"
    [] variable = "value_step_out" -> "balance_step_out"
    [] variable = "value_step_rate" -> "balance_step_rate"

VariablesDeMutante(df_hist, df_modelo) == Variables

\* the variables of the zone that get a chart of their own, in order
VariablesDe(df_hist, df_modelo) ==
  SelectSeq(Variables, LAMBDA v : v \in Columns(df_hist) \/ v \in Columns(df_modelo))

\* if df_hist.empty and df_modelo.empty: continue
SinDatosMutante(df_hist, df_modelo) == FALSE

SinDatos(df_hist, df_modelo) == Empty(df_hist) /\ Empty(df_modelo)

\* the rest of one iteration of the loop over zonas: procesar_datos, the skip
\* of a zone without data, datos_por_zona, the charts and their files
BalanceProcesarZona ==
  /\ programa = "balance" /\ pc = "procesar"
  /\ \E p \in ResultadosProcesar(hist, modelo) :
     LET vs == VariablesDe(p.df_hist, p.df_modelo)
         omitida == SinDatos(p.df_hist, p.df_modelo)
     IN  /\ procesados' = Append(procesados,
              [zona |-> ZonaActual, df_hist |-> p.df_hist, df_modelo |-> p.df_modelo,
               fecha_transicion |-> p.fecha_transicion, omitida |-> omitida,
               graficos |-> IF omitida THEN <<>>
                            ELSE [k \in 1..Len(vs) |->
                                    crear_grafico_balance(p.df_hist, p.df_modelo,
                                                          p.fecha_transicion, vs[k])],
               combinado |-> IF omitida THEN <<>>
                             ELSE <<crear_grafico_combinado(p.df_hist, p.df_modelo,
                                                            p.fecha_transicion)>>])
         /\ IF omitida
            THEN /\ mensajes' = Append(mensajes, "Sin datos")
                 /\ UNCHANGED <<datos_por_zona, archivos>>
            ELSE /\ mensajes' = mensajes
                 /\ datos_por_zona' = Append(datos_por_zona,
                      [zona |-> ZonaActual, df_hist |-> TrasGraficar(p.df_hist),
                       df_modelo |-> TrasGraficar(p.df_modelo)])
                 /\ archivos' = archivos
                      \o [k \in 1..Len(vs) |-> Archivo(ZonaActual, NombreCorto(vs[k]))]
                      \o <<Archivo(ZonaActual, "balance_combinado")>>
  /\ IF i < Len(zonas)
     THEN i' = i + 1 /\ pc' = "hist"
     ELSE i' = i /\ pc' = "agregados"
  /\ UNCHANGED <<programa, zonas, tipo_serie, hist, modelo, agregados, peticiones>>

\* if datos_por_zona: the three aggregate charts and their files
BalanceAgregados ==
  /\ programa = "balance" /\ pc = "agregados"
  /\ IF Len(datos_por_zona) > 0
     THEN /\ agregados' =
               <<[comparacion |-> crear_grafico_comparacion_zonas(datos_por_zona),
                  neto |-> crear_grafico_balance_neto_zonas(datos_por_zona),
                  evolucion |-> crear_grafico_evolucion_total(datos_por_zona)]>>
          /\ archivos' = archivos \o
               << Archivo("", "comparacion_componentes_zonas"),
                  Archivo("", "balance_neto_zonas"),
                  Archivo("", "evolucion_balance_total") >>
          /\ datos_por_zona' = DatosTrasGraficos(datos_por_zona)
     ELSE UNCHANGED <<agregados, archivos, datos_por_zona>>
  /\ pc' = "fin"
  /\ UNCHANGED <<programa, zonas, i, tipo_serie, hist, modelo,
                 procesados, peticiones, mensajes>>

\* ----------------------------------------- one-zone runs of balance.py
RegistrosZona ==
  { r \in Registros(1..ZMaxDate, {"value_step_in", "value_step_out"}, 1..ZMaxVal) :
      /\ "value_step_in" \in DOMAIN r
      /\ "value_step_out" \in DOMAIN r => r["value_step_out"] = 1 }

SeriesZona == SeqsUpTo(RegistrosZona, ZMaxLen)

ListadosZona == { <<>>, <<"A">> }

InitZona == InitVars("balance")

NextZona ==
  \/ BalanceObtenerZonas(ListadosZona)
  \/ BalanceObtenerHist(SeriesZona)
  \/ BalanceObtenerModelo(SeriesZona)
  \/ BalanceProcesarZona
  \/ BalanceAgregados

SpecZona == InitZona /\ [][NextZona]_vars

\* ------------- one-zone runs of balance.py over series in any order
\* records that all carry value_step_in, with two values at the first date, so
\* that two records of one date can differ
RegistrosOrden ==
  { r \in Registros(1..OMaxDate, {"value_step_in"}, {1, 2}) :
      /\ "value_step_in" \in DOMAIN r
      /\ r["date"] > 1 => r["value_step_in"] = 1 }

SeriesOrden == SeqsUpTo(RegistrosOrden, OMaxLen)

NextOrden ==
  \/ BalanceObtenerZonas(ListadosZona)
  \/ BalanceObtenerHist(SeriesOrden)
  \/ BalanceObtenerModelo(SeriesOrden)
  \/ BalanceProcesarZona
  \/ BalanceAgregados

SpecOrden == InitZona /\ [][NextOrden]_vars

\* ------------ one-zone runs of balance.py over records with any variables
FechasColumnas == {1}

RegistrosColumnas ==
  Registros(FechasColumnas, {"value_step_in", "value_step_out", "value_step_rate"}, {1})

SeriesColumnas == SeqsUpTo(RegistrosColumnas, KMaxLen)

NextColumnas ==
  \/ BalanceObtenerZonas(ListadosZona)
  \/ BalanceObtenerHist(SeriesColumnas)
  \/ BalanceObtenerModelo(SeriesColumnas)
  \/ BalanceProcesarZona
  \/ BalanceAgregados

SpecColumnas == InitZona /\ [][NextColumnas]_vars

\* ------- two-zone runs of balance.py over series that repeat and share dates
FechasEvolucion == {1, 2}

RegistrosEvolucion ==
  { r \in Registros(FechasEvolucion, {"value_step_in", "value_step_out"}, {1, 2}) :
      /\ DOMAIN r = {"date", "value_step_in", "value_step_out"}
      /\ r["value_step_in"] = 2
      /\ r["value_step_out"] = 1 }

SeriesEvolucion == SeqsUpTo(RegistrosEvolucion, VMaxLen)

ListadosEvolucion == { <<>>, <<"A", "B">> }

NextEvolucion ==
  \/ BalanceObtenerZonas(ListadosEvolucion)
  \/ BalanceObtenerHist(SeriesEvolucion)
  \/ BalanceObtenerModelo(SeriesEvolucion)
  \/ BalanceProcesarZona
  \/ BalanceAgregados

SpecEvolucion == InitZona /\ [][NextEvolucion]_vars

\* ------------------------------------ cota.py: generar_graficos_todas_zonas
\* cota.py's procesar_datos has the text of balance.py's
cota_procesar_datos(datos_historicos, datos_metamodelo) ==
  LET df_hist == Ordenar(datos_historicos)
      df_modelo == Ordenar(datos_metamodelo)
  IN  [df_hist |-> df_hist, df_modelo |-> df_modelo,
       fecha_transicion |->
         IF ~Empty(df_hist) /\ ~Empty(df_modelo) THEN Max(Dates(df_hist)) ELSE None]

\* the outcomes of cota.py's procesar_datos, one for each outcome of the sorts
cota_ResultadosProcesar(datos_historicos, datos_metamodelo) ==
  { cota_procesar_datos(dh, dm) : dh \in ResultadosOrdenar(datos_historicos),
                                  dm \in ResultadosOrdenar(datos_metamodelo) }

\* the rows of the MODFLOW line and of the Metamodelo line, and the marker
crear_grafico(df_hist, df_modelo, fecha_transicion) ==
  [hist |-> IF ~Empty(df_hist) /\ "value" \in Columns(df_hist) THEN df_hist ELSE <<>>,
   modelo |-> IF ~Empty(df_modelo) /\ "value" \in Columns(df_modelo)
              THEN df_modelo ELSE <<>>,
   marca |-> fecha_transicion]

UrlCota(tipo, clase) ==
  CASE tipo = "head-absoluto" /\ clase = "historico" -> "head-absoluto-historico"
    [] tipo = "head-absoluto" /\ clase = "modelacion" -> "head-absoluto-modelacion"
    [] tipo = "head-delta" /\ clase = "historico" -> "head-delta-historico"
    [] tipo = "head-delta" /\ clase = "modelacion" -> "head-delta-modelacion"

ArchivoCota(tipo) ==
  IF tipo = "head-absoluto" THEN "head_absoluto" ELSE "head_delta"

\* zonas = obtener_zonas(); if not zonas: print, return
CotaObtenerZonas(L) ==
  /\ programa = "cota" /\ pc = "inicio"
  /\ \E r \in Respuestas(L) :
       /\ zonas' = CuerpoOVacio(r)
       /\ peticiones' = Append(peticiones, Peticion("zonas", "", r))
       /\ IF Len(zonas') = 0
          THEN /\ mensajes' = Append(mensajes, "No se pudieron obtener las zonas")
               /\ pc' = "fin"
               /\ UNCHANGED <<i, tipo_serie>>
          ELSE /\ mensajes' = mensajes
               /\ pc' = "hist"
               /\ i' = 1
               /\ tipo_serie' = "head-absoluto"
  /\ UNCHANGED <<programa, hist, modelo, datos_por_zona, procesados, agregados,
                 archivos>>

\* hist_abs / hist_delta = obtener_datos_historicos(zona_id, tipo)
CotaObtenerHist(S) ==
  /\ programa = "cota" /\ pc = "hist"
  /\ \E r \in Respuestas(S) :
       /\ hist' = CuerpoOVacio(r)
       /\ peticiones' = Append(peticiones,
                               Peticion(UrlCota(tipo_serie, "historico"), ZonaActual, r))
       /\ pc' = TrasPeticion(r, "modelo")
  /\ procesados' = <<>>
  /\ UNCHANGED <<programa, zonas, i, tipo_serie, modelo, datos_por_zona,
                 agregados, archivos, mensajes>>

\* modelo_abs / modelo_delta = obtener_datos_metamodelo(zona_id, tipo)
CotaObtenerModelo(S) ==
  /\ programa = "cota" /\ pc = "modelo"
  /\ \E r \in Respuestas(S) :
       /\ modelo' = CuerpoOVacio(r)
       /\ peticiones' = Append(peticiones,
                               Peticion(UrlCota(tipo_serie, "modelacion"), ZonaActual, r))
       /\ pc' = TrasPeticion(r, "procesar")
  /\ UNCHANGED <<programa, zonas, i, tipo_serie, hist, datos_por_zona, procesados,
                 agregados, archivos, mensajes>>

HayDatosMutante(df_hist, df_modelo) == TRUE

\* if not df_hist.empty or not df_modelo.empty: the chart is built and written
HayDatos(df_hist, df_modelo) == ~Empty(df_hist) \/ ~Empty(df_modelo)

\* procesar_datos and, if one of the two series has rows, the chart and its
\* file; then head-delta of the same zone, or the next zone.  procesados holds
\* the figure of this step until the next fetch starts; the fetched lists are
\* dead once processed.
CotaGraficar ==
  /\ programa = "cota" /\ pc = "procesar"
  /\ \E p \in cota_ResultadosProcesar(hist, modelo) :
     LET hay == HayDatos(p.df_hist, p.df_modelo)
     IN  /\ procesados' =
              <<[zona |-> ZonaActual, tipo |-> tipo_serie,
                 df_hist |-> p.df_hist, df_modelo |-> p.df_modelo,
                 fecha_transicion |-> p.fecha_transicion,
                 graficos |-> IF hay
                              THEN <<crear_grafico(p.df_hist, p.df_modelo,
                                                   p.fecha_transicion)>>
                              ELSE <<>>]>>
         /\ archivos' = IF hay
                        THEN Append(archivos, Archivo(ZonaActual, ArchivoCota(tipo_serie)))
                        ELSE archivos
  /\ hist' = <<>>
  /\ modelo' = <<>>
  /\ IF tipo_serie = "head-absoluto"
     THEN tipo_serie' = "head-delta" /\ i' = i /\ pc' = "hist"
     ELSE IF i < Len(zonas)
          THEN tipo_serie' = "head-absoluto" /\ i' = i + 1 /\ pc' = "hist"
          ELSE tipo_serie' = tipo_serie /\ i' = i /\ pc' = "fin"
  /\ UNCHANGED <<programa, zonas, datos_por_zona, agregados, peticiones, mensajes>>

\* ------------------- pozos_historicos.py: generar_graficos_pozos_ejemplo
PozosDelListado == zonas

pozos_ejemplo == <<"Pozo_104_E809_N774", "Pozo_3_E797_N645", "Pozo_16_E752_N698">>

\* the JSON object of a well: the keys it has and the list under 'data'
SinCuerpo == [claves |-> {}, data |-> <<>>]

Cuerpos(S) ==
  { SinCuerpo, [claves |-> {"info"}, data |-> <<>>] }
  \cup { [claves |-> {"data", "info"}, data |-> x] : x \in S }

RespuestasPozo(S) ==
  { [status |-> 200, json |-> c] : c \in Cuerpos(S) }
  \cup { [status |-> 500, json |-> SinCuerpo] }

PeticionPozo(url, pozo, r) ==
  [url |-> url, zona |-> pozo, status |-> r.status,
   con_filas |-> Len(r.json.data) > 0]

\* obtener_datos_pozo: the body on status 200, None otherwise; None and {} are
\* both false for 'if not datos'
obtener_datos_pozo(r) == IF r.status = 200 THEN r.json ELSE SinCuerpo

ConDatosMutante(datos) == TRUE

\* procesar_datos_pozo returns a DataFrame with rows: it returns (None, None)
\* without datos or without 'data', and an empty DataFrame for an empty list
ConDatos(datos) ==
  /\ datos.claves # {}
  /\ "data" \in datos.claves
  /\ ~Empty(datos.data)

\* pozos = obtener_listado_pozos(); if not pozos: print, return
PozosObtenerListado(L) ==
  /\ programa = "pozos_historicos" /\ pc = "inicio"
  /\ \E r \in Respuestas(L) :
       /\ zonas' = CuerpoOVacio(r)
       /\ peticiones' = Append(peticiones, Peticion("listado-pozos", "", r))
       /\ IF Len(zonas') = 0
          THEN /\ mensajes' = Append(mensajes, "No se pudo obtener el listado de pozos")
               /\ pc' = "fin"
               /\ i' = i
          ELSE /\ mensajes' = mensajes
               /\ pc' = "pozo"
               /\ i' = 1
  /\ UNCHANGED <<programa, tipo_serie, hist, modelo, datos_por_zona, procesados,
                 agregados, archivos>>

\* print(f"... {df['value'].min():.2f} m"): df['value'] raises KeyError when no
\* record of the well carries 'value'
SinColumnaValue(df) == "value" \notin Columns(df)

\* the loop over pozos_ejemplo moves on
SiguientePozo ==
  IF i < Len(pozos_ejemplo)
  THEN i' = i + 1 /\ pc' = "pozo"
  ELSE i' = i /\ pc' = "comparativo"

\* one iteration of the loop over pozos_ejemplo: the fetch, the two skips, the
\* prints of the level range, pozos_data, crear_grafico_pozo and its file
PozosProcesarPozo(S) ==
  /\ programa = "pozos_historicos" /\ pc = "pozo"
  /\ \E r \in RespuestasPozo(S) :
       LET datos == obtener_datos_pozo(r) IN
         /\ peticiones' = Append(peticiones,
                                 PeticionPozo("pozos-data", pozos_ejemplo[i], r))
         /\ IF ConDatos(datos)
            THEN (\E df \in ResultadosOrdenar(datos.data) :
                 IF SinColumnaValue(df)
                 THEN /\ mensajes' = Append(mensajes, "KeyError")
                      /\ pc' = "abortado"
                      /\ UNCHANGED <<datos_por_zona, archivos, i>>
                 ELSE /\ datos_por_zona' = Append(datos_por_zona,
                           [zona |-> pozos_ejemplo[i], df |-> df])
                      /\ archivos' = Append(archivos,
                                            Archivo(pozos_ejemplo[i], "historico"))
                      /\ mensajes' = mensajes
                      /\ SiguientePozo)
            ELSE /\ mensajes' = Append(mensajes, "Sin datos")
                 /\ UNCHANGED <<datos_por_zona, archivos>>
                 /\ SiguientePozo
  /\ UNCHANGED <<programa, zonas, tipo_serie, hist, modelo, procesados, agregados>>

\* if pozos_data: crear_grafico_comparativo and its file
PozosComparativo ==
  /\ programa = "pozos_historicos" /\ pc = "comparativo"
  /\ archivos' = IF Len(datos_por_zona) > 0
                 THEN Append(archivos, Archivo("", "pozos_comparativo"))
                 ELSE archivos
  /\ pc' = "fin"
  /\ UNCHANGED <<programa, zonas, i, tipo_serie, hist, modelo, datos_por_zona,
                 procesados, agregados, peticiones, mensajes>>

\* ----------------------------- pronostico.py: generar_graficos_pronosticos
\* pozos_lista = obtener_listado_pozos_pronostico(); if not pozos_lista: return
PronosticoObtenerListado(L) ==
  /\ programa = "pronostico" /\ pc = "inicio"
  /\ \E r \in Respuestas(L) :
       /\ zonas' = CuerpoOVacio(r)
       /\ peticiones' = Append(peticiones, Peticion("pronostico-listado", "", r))
       /\ IF Len(zonas') = 0
          THEN /\ mensajes' = Append(mensajes,
                    "No se pudo obtener el listado de pozos con pronosticos")
               /\ pc' = "fin"
               /\ i' = i
          ELSE /\ mensajes' = mensajes
               /\ pc' = "pozo"
               /\ i' = 1
  /\ UNCHANGED <<programa, tipo_serie, hist, modelo, datos_por_zona, procesados,
                 agregados, archivos>>

\* obtener_info_pozo_completa: the keys of data.get('info', {}) on status 200,
\* {} otherwise
obtener_info_pozo_completa(r) ==
  IF r.status = 200 /\ "info" \in r.json.claves THEN {"punto_monitoreo"} ELSE {}

HayFiguraMutante(df, info_completa) == ~Empty(df) /\ info_completa # {}

\* crear_grafico_pronostico returns a figure unless df is None or empty; the
\* metadata only fills the title, through .get with defaults
HayFigura(df, info_completa) == ~Empty(df)

\* one iteration of the loop over pozos_ejemplo: the forecast fetch, the two
\* skips, the metadata fetch, the prints of the range (df['value'] raises
\* KeyError when no record carries 'value'), pozos_data,
\* crear_grafico_pronostico and its file
PronosticoProcesarPozo(S) ==
  /\ programa = "pronostico" /\ pc = "pozo"
  /\ \E r \in RespuestasPozo(S), info \in RespuestasPozo({<<>>}) :
     \E df \in ResultadosOrdenar(obtener_datos_pozo(r).data) :
       LET datos == obtener_datos_pozo(r)
           pet == Append(peticiones,
                         PeticionPozo("pronostico-pozos-data", pozos_ejemplo[i], r))
           info_completa == obtener_info_pozo_completa(info)
       IN  IF ConDatos(datos)
           THEN /\ peticiones' = Append(pet,
                      PeticionPozo("pozos-data", pozos_ejemplo[i], info))
                /\ IF SinColumnaValue(df)
                   THEN /\ mensajes' = Append(mensajes, "KeyError")
                        /\ pc' = "abortado"
                        /\ UNCHANGED <<datos_por_zona, archivos, i>>
                   ELSE /\ datos_por_zona' = Append(datos_por_zona,
                             [zona |-> pozos_ejemplo[i], df |-> df,
                              info_completa |-> info_completa])
                        /\ archivos' =
                             IF HayFigura(df, info_completa)
                             THEN Append(archivos,
                                         Archivo(pozos_ejemplo[i], "pronostico"))
                             ELSE archivos
                        /\ mensajes' = mensajes
                        /\ SiguientePozo
           ELSE /\ peticiones' = pet
                /\ mensajes' = Append(mensajes, "Sin datos de pronostico")
                /\ UNCHANGED <<datos_por_zona, archivos>>
                /\ SiguientePozo
  /\ UNCHANGED <<programa, zonas, tipo_serie, hist, modelo, procesados, agregados>>

\* if pozos_data: crear_grafico_comparativo_pronosticos and its file
PronosticoComparativo ==
  /\ programa = "pronostico" /\ pc = "comparativo"
  /\ archivos' = IF Len(datos_por_zona) > 0
                 THEN Append(archivos, Archivo("", "pronosticos_comparativo"))
                 ELSE archivos
  /\ pc' = "fin"
  /\ UNCHANGED <<programa, zonas, i, tipo_serie, hist, modelo, datos_por_zona,
                 procesados, agregados, peticiones, mensajes>>

\* ------------------------------------------------------- grafico_pozos.py
Categorias == {"<P33", "P33-P66", "P66-P99", ">P99"}

\* if response.status_code != 200: print, exit(1)
ErrorHttpMutante(r) == FALSE

ErrorHttp(r) == r.status # 200

\* the wells GeoJSON: the clasificacion_percentil of its features, in hist
GraficoObtenerPozos(F) ==
  /\ programa = "grafico_pozos" /\ pc = "inicio"
  /\ \E r \in Respuestas(F) :
       /\ peticiones' = Append(peticiones, Peticion("pozos-nivel-geojson", "", r))
       /\ IF ErrorHttp(r)
          THEN /\ mensajes' = Append(mensajes, "Error al obtener datos de pozos")
               /\ pc' = "abortado"
               /\ hist' = hist
          ELSE /\ mensajes' = mensajes
               /\ pc' = "zonas"
               /\ hist' = r.json
  /\ UNCHANGED <<programa, zonas, i, tipo_serie, modelo, datos_por_zona, procesados,
                 agregados, archivos>>

\* the zones GeoJSON
GraficoObtenerZonas ==
  /\ programa = "grafico_pozos" /\ pc = "zonas"
  /\ \E r \in Respuestas({<<>>}) :
       /\ peticiones' = Append(peticiones,
                               Peticion("metamodelos-zonas-geojson", "", r))
       /\ IF ErrorHttp(r)
          THEN /\ mensajes' = Append(mensajes, "Error al obtener datos de zonas")
               /\ pc' = "abortado"
          ELSE /\ mensajes' = mensajes
               /\ pc' = "contar"
  /\ UNCHANGED <<programa, zonas, i, tipo_serie, hist, modelo, datos_por_zona,
                 procesados, agregados, archivos>>

ConteosMutante(pozos) == [c \in Categorias |-> Len(pozos)]

\* conteos[pozo['clasificacion']] += 1 for every well
Conteos(pozos) ==
  [c \in Categorias |-> Cardinality({ k \in DOMAIN pozos : pozos[k] = c })]

\* the counting loop, which raises KeyError on a classification that is no
\* key of conteos, then the figure and plt.savefig
GraficoContarYGuardar ==
  /\ programa = "grafico_pozos" /\ pc = "contar"
  /\ IF \A k \in DOMAIN hist : hist[k] \in Categorias
     THEN /\ agregados' = <<Conteos(hist)>>
          /\ archivos' = Append(archivos, Archivo("", "distribucion_pozos_percentiles"))
          /\ mensajes' = mensajes
          /\ pc' = "fin"
     ELSE /\ mensajes' = Append(mensajes, "KeyError")
          /\ pc' = "abortado"
          /\ UNCHANGED <<agregados, archivos>>
  /\ UNCHANGED <<programa, zonas, i, tipo_serie, hist, modelo, datos_por_zona,
                 procesados, peticiones>>

\* ------------------------------------------------ runs over two zones
RegistrosRun ==
  { r \in Registros(1..EMaxDate, {"value_step_in", "value_step_out"}, {1, 2}) :
      /\ DOMAIN r = {"date", "value_step_in", "value_step_out"}
      /\ r["value_step_in"] = 2
      /\ r["value_step_out"] = 1 }

SeriesRun == SeqsUpTo(RegistrosRun, EMaxLen)

ListadosRun == { <<>>, <<"A", "B">> }

RegistrosCota ==
  { r \in Registros(1..CMaxDate, {"value"}, {1}) : "value" \in DOMAIN r }

SeriesCota == SeqsUpTo(RegistrosCota, CMaxLen)

\* level records of a well: 'value' is optional
RegistrosPozo == Registros(1..CMaxDate, {"value"}, {1})

SeriesPozo == SeqsUpTo(RegistrosPozo, CMaxLen)

ListadosPozos == { <<>>, <<"Pozo_1_E700_N600">> }

\* no listing, a listing without example wells, a listing with one of them
ListadosPozosVarios == ListadosPozos \cup { <<"Pozo_3_E797_N645">> }

Clasificaciones == SeqsUpTo(Categorias \cup {"sin clasificar"}, GMaxLen)

Programas == {"balance", "cota", "pozos_historicos", "pronostico", "grafico_pozos"}

Init == \E p \in Programas : InitVars(p)

Next ==
  \/ BalanceObtenerZonas(ListadosRun)
  \/ BalanceObtenerHist(SeriesRun)
  \/ BalanceObtenerModelo(SeriesRun)
  \/ BalanceProcesarZona
  \/ BalanceAgregados
  \/ CotaObtenerZonas(ListadosRun)
  \/ CotaObtenerHist(SeriesCota)
  \/ CotaObtenerModelo(SeriesCota)
  \/ CotaGraficar
  \/ PozosObtenerListado(ListadosPozos)
  \/ PozosProcesarPozo(SeriesPozo)
  \/ PozosComparativo
  \/ PronosticoObtenerListado(ListadosPozos)
  \/ PronosticoProcesarPozo(SeriesCota)
  \/ PronosticoComparativo
  \/ GraficoObtenerPozos(Clasificaciones)
  \/ GraficoObtenerZonas
  \/ GraficoContarYGuardar

Spec == Init /\ [][Next]_vars

\* a script that can take a step does take one: each step is a request that
\* gets its response or a stretch of straight-line code
SpecJusto == Spec /\ WF_vars(Next)

\* ------- runs of the two wells scripts over series whose records may lack
\* 'value'
ProgramasPozos == {"pozos_historicos", "pronostico"}

InitPozos == \E p \in ProgramasPozos : InitVars(p)

NextPozos ==
  \/ PozosObtenerListado(ListadosPozosVarios)
  \/ PozosProcesarPozo(SeriesPozo)
  \/ PozosComparativo
  \/ PronosticoObtenerListado(ListadosPozosVarios)
  \/ PronosticoProcesarPozo(SeriesPozo)
  \/ PronosticoComparativo

SpecPozos == InitPozos /\ [][NextPozos]_vars

\* ------------------------------------------------------------- properties
\* equality of two means <<sum, count>>; NaN (count 0) equals only NaN
IgualQ(a, b) ==
  IF a[2] = 0 \/ b[2] = 0 THEN a[2] = 0 /\ b[2] = 0
  ELSE a[1] * b[2] = b[1] * a[2]

\* the last timestamp of a zone's historical series, None without one
Transicion(df_hist) == IF Len(df_hist) > 0 THEN Max(Dates(df_hist)) ELSE None

Filas(df) == { df[k] : k \in DOMAIN df }

\* the forecast rows drawn in the per-zone charts of a processed zone
FilasDibujadas(e) ==
  UNION { Filas(e.graficos[n].modelo) : n \in DOMAIN e.graficos }
  \cup UNION { Filas(e.combinado[c].modelo[v]) :
                 c \in DOMAIN e.combinado, v \in 1..Len(Variables) }

\* the aggregate figures of a run of balance.py
AgregadosBalance == IF programa = "balance" THEN Filas(agregados) ELSE {}

\* C1: in the per-zone charts of a zone whose historical series is not empty,
\* every forecast row drawn is dated strictly after the last historical date;
\* a forecast row dated at the transition is not drawn.
Thm_C1 ==
  \A n \in DOMAIN procesados :
    LET e == procesados[n] IN
      Len(e.df_hist) > 0 =>
        \A r \in FilasDibujadas(e) : r["date"] > Transicion(e.df_hist)

\* a zone was charted whose forecast has a row dated exactly at the transition
Wit_C1 ==
  \E n \in DOMAIN procesados :
    LET e == procesados[n] IN
      /\ Len(e.df_hist) > 0
      /\ Len(e.graficos) > 0 /\ Len(e.combinado) > 0
      /\ \E r \in Filas(e.df_modelo) :
           r["date"] = Transicion(e.df_hist) /\ "value_step_in" \in DOMAIN r

\* the zone whose fetches the loop has just processed
Ultimo == procesados[Len(procesados)]

RecienProcesada ==
  /\ pc \in {"hist", "agregados"}
  /\ Len(procesados) > 0
  /\ pc = "hist" => Ultimo.zona = zonas[i - 1]

\* C2 as claimed: procesar_datos returns the last historical date whenever
\* the historical series is not empty, whatever the forecast series, and no
\* transition only when the historical series is empty.
Orig_C2 ==
  RecienProcesada =>
    Ultimo.fecha_transicion =
      (IF Len(hist) > 0 THEN Max(Dates(hist)) ELSE None)

\* C2 amended: procesar_datos returns the last historical date when both the
\* historical and the forecast series are not empty, and no transition when
\* either of them is empty.
Thm_C2 ==
  RecienProcesada =>
    Ultimo.fecha_transicion =
      (IF Len(hist) > 0 /\ Len(modelo) > 0 THEN Max(Dates(hist)) ELSE None)

\* procesar_datos ran on a historical series without a forecast series
Wit_C2 ==
  /\ RecienProcesada
  /\ Len(hist) > 0 /\ Len(modelo) = 0
  /\ Ultimo.fecha_transicion = None

\* the entry of datos_por_zona of a zone of an aggregate chart
DatosDe(zona) ==
  CHOOSE e \in Filas(datos_por_zona) : e.zona = zona

\* historical rows plus forecast tail of a zone
HistMasCola(e) == e.df_hist \o DfFuturo(e.df_modelo, Transicion(e.df_hist))

\* C3 as claimed: the means of the component comparison chart and the net
\* balance of the net-balance chart are those of the historical rows plus the
\* forecast tail only.
Orig_C3 ==
  \A a \in AgregadosBalance :
    /\ \A z \in Filas(a.comparacion) :
         LET c == HistMasCola(DatosDe(z.zona)) IN
           /\ IgualQ(z.step_in, MeanOrZero(c, "value_step_in"))
           /\ IgualQ(z.step_out, MeanOrZero(c, "value_step_out"))
           /\ IgualQ(z.step_rate, MeanOrZero(c, "value_step_rate"))
    /\ \A z \in Filas(a.neto) :
         IgualQ(z.neto, Neto(HistMasCola(DatosDe(z.zona))))

\* the rows of a DataFrame that carry both balance fields
Ambos(df) ==
  SelectSeq(df, LAMBDA r : "value_step_in" \in DOMAIN r
                           /\ "value_step_out" \in DOMAIN r)

\* mean(col1) - mean(col2) as a quotient
DifMedias(a, b) == <<a[1] * b[2] - b[1] * a[2], a[2] * b[2]>>

\* C4 as claimed: the net balance of a zone is mean(value_step_in) minus
\* mean(value_step_out), each over the rows that carry that field, when both
\* fields occur, and 0 otherwise.  Stated for zones whose forecast lies wholly
\* after the transition, where the concatenation is the same on every reading.
Orig_C4 ==
  \A a \in AgregadosBalance : \A z \in Filas(a.neto) :
    LET e == DatosDe(z.zona)
        c == Concat(e)
    IN  HistMasCola(e) = c =>
          IF {"value_step_in", "value_step_out"} \subseteq Columns(c)
          THEN IgualQ(z.neto, DifMedias(Mean(c, "value_step_in"),
                                        Mean(c, "value_step_out")))
          ELSE IgualQ(z.neto, Cero)

\* C4 amended: the net balance of a zone is mean(value_step_in) minus
\* mean(value_step_out), both means taken over the rows of the concatenation
\* that carry both fields (NaN when both fields occur but in no common row),
\* and 0 when one of the fields occurs in no row.
Thm_C4 ==
  \A a \in AgregadosBalance : \A z \in Filas(a.neto) :
    LET c == Concat(DatosDe(z.zona))
    IN  IF {"value_step_in", "value_step_out"} \subseteq Columns(c)
        THEN IF Len(Ambos(c)) = 0 THEN z.neto[2] = 0
             ELSE IgualQ(z.neto, DifMedias(Mean(Ambos(c), "value_step_in"),
                                           Mean(Ambos(c), "value_step_out")))
        ELSE IgualQ(z.neto, Cero)

\* a net balance was computed over rows of which one lacks value_step_out
Wit_C4 ==
  \E a \in AgregadosBalance : \E z \in Filas(a.neto) :
    LET c == Concat(DatosDe(z.zona))
    IN  /\ Len(Ambos(c)) > 0
        /\ Len(Ambos(c)) < Len(c)
        /\ ~IgualQ(z.neto, Cero)

\* the zones the loop reached whose two series came out empty
Omitidas ==
  { e \in Filas(procesados) : Len(e.df_hist) = 0 /\ Len(e.df_modelo) = 0 }

ZonasDe(grafico) == { z.zona : z \in Filas(grafico) }

\* C5 as claimed: a zone whose two series are empty gets no per-zone chart
\* but is in the net-balance chart with net balance 0.
Orig_C5 ==
  (programa = "balance" /\ pc = "fin") =>
    \A a \in AgregadosBalance : \A e \in Omitidas :
      /\ \A f \in Filas(archivos) : f.zona # e.zona
      /\ \E z \in Filas(a.neto) : z.zona = e.zona /\ IgualQ(z.neto, Cero)

\* C5 amended: a zone whose two series are empty gets no per-zone chart and
\* is in none of the aggregate charts: it is not a zone of the net-balance
\* chart nor of the component comparison chart.
Thm_C5 ==
  programa = "balance" =>
  \A e \in Omitidas :
    /\ \A f \in Filas(archivos) : f.zona # e.zona
    /\ \A d \in Filas(datos_por_zona) : d.zona # e.zona
    /\ \A a \in AgregadosBalance :
         e.zona \notin ZonasDe(a.neto) \cup ZonasDe(a.comparacion)

\* a run ended with aggregate charts and a zone without data
Wit_C5 ==
  /\ programa = "balance"
  /\ pc = "fin"
  /\ Len(agregados) > 0
  /\ Omitidas # {}

\* the transitions procesar_datos returned for the zones of the run
Transiciones ==
  { e.fecha_transicion : e \in { x \in Filas(procesados) : x.fecha_transicion # None } }

Min(S) == CHOOSE x \in S : \A y \in S : x <= y

\* C6 as claimed: the transition of the system-wide evolution chart is the
\* earliest transition among the zones that have one.
Orig_C6 ==
  \A a \in AgregadosBalance :
    a.evolucion.fecha_transicion =
      (IF Transiciones = {} THEN None ELSE Min(Transiciones))

\* C7 as claimed: every forecast row that contributes to a forecast total of the
\* system-wide evolution is dated strictly after the transition of its own zone.
Orig_C7 ==
  \A a \in AgregadosBalance :
    \A k \in DOMAIN a.evolucion.fechas_futuro :
      \A e \in Filas(datos_por_zona) : \A r \in Filas(e.df_modelo) :
        r["date"] = a.evolucion.fechas_futuro[k] =>
          r["date"] > Transicion(e.df_hist)

Serie(e, tipo) == IF tipo = "hist" THEN e.df_hist ELSE e.df_modelo

\* the rows <<zone index, row index>> of the series of a type dated t
FilasEn(t, tipo) ==
  UNION { { <<z, j>> : j \in { n \in DOMAIN Serie(datos_por_zona[z], tipo) :
                                 Serie(datos_por_zona[z], tipo)[n]["date"] = t } } :
          z \in DOMAIN datos_por_zona }

RECURSIVE SumaBalances(_, _)
SumaBalances(S, tipo) ==
  IF S = {} THEN 0
  ELSE LET x == CHOOSE y \in S : TRUE
           r == Serie(datos_por_zona[x[1]], tipo)[x[2]]
       IN  r["value_step_in"] - r["value_step_out"] + SumaBalances(S \ {x}, tipo)

TodasFechas(tipo) == UNION { Dates(Serie(e, tipo)) : e \in Filas(datos_por_zona) }

\* C8: in the system-wide evolution the historical total at a date is the sum
\* over all zones of value_step_in - value_step_out of the historical rows of
\* that date, the forecast total at a date the same sum over the forecast rows,
\* every date of a historical row has a total and no date appears that is not
\* the date of a row.
Thm_C8 ==
  \A a \in AgregadosBalance :
    LET ev == a.evolucion IN
      /\ Filas(ev.fechas_hist) = TodasFechas("hist")
      /\ Filas(ev.fechas_futuro) \subseteq TodasFechas("modelo")
      /\ \A k \in DOMAIN ev.fechas_hist :
           ev.valores_hist[k] =
             Num(SumaBalances(FilasEn(ev.fechas_hist[k], "hist"), "hist"))
      /\ \A k \in DOMAIN ev.fechas_futuro :
           ev.valores_futuro[k] =
             Num(SumaBalances(FilasEn(ev.fechas_futuro[k], "modelo"), "modelo"))

\* two zones have a historical row at the same date and the total holds both
Wit_C8 ==
  \E a \in AgregadosBalance : \E k \in DOMAIN a.evolucion.fechas_hist :
    /\ Cardinality(FilasEn(a.evolucion.fechas_hist[k], "hist")) > 1
    /\ a.evolucion.valores_hist[k].v > 1
    /\ Len(a.evolucion.fechas_futuro) > 0

\* the requests of the time series of the k-th zone of a finished run, in the
\* order the loop issues them
UrlsZona ==
  IF programa = "balance"
  THEN <<"balance-historico", "balance-modelacion">>
  ELSE <<"head-absoluto-historico", "head-absoluto-modelacion",
         "head-delta-historico", "head-delta-modelacion">>

PeticionZona(k, n) == peticiones[1 + (k - 1) * Len(UrlsZona) + n]

\* the file that shows the series a request of a zone fetched
ArchivoDe(pet) ==
  IF programa = "balance" THEN Archivo(pet.zona, "balance_combinado")
  ELSE IF pet.url \in {"head-absoluto-historico", "head-absoluto-modelacion"}
       THEN Archivo(pet.zona, "head_absoluto")
       ELSE Archivo(pet.zona, "head_delta")

EsSerie(pet) == pet.zona # ""

\* C9: in balance.py and cota.py a time-series fetch that ends with a status
\* other than 200 yields the empty series and the run goes on: at the end of a
\* run every zone of the listing has had all its fetches, in listing order,
\* every zone has been processed, and every series that came with records is
\* in a chart file of its zone.
Thm_C9 ==
  programa \in {"balance", "cota"} =>
    /\ (pc = "modelo" /\ peticiones[Len(peticiones)].status # 200) => hist = <<>>
    /\ (pc = "procesar" /\ peticiones[Len(peticiones)].status # 200) => modelo = <<>>
    /\ pc = "fin" =>
         /\ Len(peticiones) = 1 + Len(zonas) * Len(UrlsZona)
         /\ \A k \in DOMAIN zonas : \A n \in DOMAIN UrlsZona :
              /\ PeticionZona(k, n).zona = zonas[k]
              /\ PeticionZona(k, n).url = UrlsZona[n]
         /\ programa = "balance" =>
              /\ Len(procesados) = Len(zonas)
              /\ \A k \in DOMAIN zonas : procesados[k].zona = zonas[k]
         /\ \A k \in DOMAIN peticiones :
              (EsSerie(peticiones[k]) /\ peticiones[k].con_filas) =>
                \E f \in Filas(archivos) : f = ArchivoDe(peticiones[k])

\* a run ended in which a fetch of the first zone failed, the other series of
\* that zone and a series of the second zone came with records
Wit_C9 ==
  /\ programa \in {"balance", "cota"}
  /\ pc = "fin"
  /\ Len(zonas) > 1
  /\ PeticionZona(1, 1).status # 200
  /\ PeticionZona(1, 2).con_filas
  /\ PeticionZona(2, 1).con_filas
  /\ \E f \in Filas(archivos) : f.zona = zonas[1]
  /\ \E f \in Filas(archivos) : f.zona = zonas[2]

\* the mandatory fetches: the listings and the two GeoJSON documents
UrlsListado ==
  {"zones", "zonas", "listado-pozos", "pronostico-listado",
   "pozos-nivel-geojson", "metamodelos-zonas-geojson"}

Terminado == pc \in {"fin", "abortado"}

\* C10: once a mandatory fetch has failed, the run has printed a diagnostic and
\* has ended; the failed request is the last request of the run and no image
\* file has been written.
Thm_C10 ==
  \A k \in DOMAIN peticiones :
    (peticiones[k].url \in UrlsListado /\ peticiones[k].status # 200) =>
      /\ k = Len(peticiones)
      /\ Terminado
      /\ Len(mensajes) > 0
      /\ archivos = <<>>

\* the second GeoJSON fetch of grafico_pozos.py failed after the first succeeded
Wit_C10 ==
  /\ programa = "grafico_pozos"
  /\ Len(peticiones) = 2
  /\ peticiones[1].status = 200
  /\ peticiones[2].status # 200
  /\ Terminado

\* C11 as claimed: records that lack an optional field never make a run abort;
\* checked for pozos_historicos.py, whose wells may return records without
\* 'value'.
Orig_C11 ==
  programa = "pozos_historicos" => pc # "abortado"

\* the number of rows of a DataFrame equal to r
Veces(df, r) == Cardinality({ k \in DOMAIN df : df[k] = r })

\* two DataFrames hold the same rows, each as many times
MismasFilas(a, b) ==
  /\ Len(a) = Len(b)
  /\ \A r \in Filas(a) \cup Filas(b) : Veces(a, r) = Veces(b, r)

NoDecreciente(df) ==
  \A j \in DOMAIN df : \A k \in DOMAIN df : j < k => df[j]["date"] <= df[k]["date"]

\* C12: the historical series procesar_datos returns holds the rows of the
\* fetched historical series, each as many times as fetched and unchanged, in
\* ascending order of date.
Thm_C12 ==
  RecienProcesada =>
    /\ MismasFilas(Ultimo.df_hist, hist)
    /\ NoDecreciente(Ultimo.df_hist)

\* procesar_datos ran on a historical series fetched in descending order
Wit_C12 ==
  /\ RecienProcesada
  /\ Len(hist) > 1
  /\ hist[1]["date"] > hist[2]["date"]
  /\ Len(Ultimo.df_hist) > 1

\* the forecast traces and the markers of the per-zone charts of a zone
TrazasModelo(e) ==
  { e.graficos[n].modelo : n \in DOMAIN e.graficos }
  \cup { e.combinado[c].modelo[v] :
           c \in DOMAIN e.combinado,
           v \in { x \in 1..Len(Variables) : Variables[x] \in Columns(e.df_modelo) } }

Marcas(e) ==
  { e.graficos[n].marca : n \in DOMAIN e.graficos }
  \cup { e.combinado[c].marca : c \in DOMAIN e.combinado }

\* C13: for a zone whose historical series is empty procesar_datos returns no
\* transition, the per-zone charts carry no transition marker, and the
\* forecast trace of every variable the forecast carries holds all the rows of
\* the fetched forecast, in ascending order of date.
Thm_C13 ==
  (RecienProcesada /\ Len(hist) = 0) =>
    /\ Ultimo.fecha_transicion = None
    /\ \A m \in Marcas(Ultimo) : m = None
    /\ \A t \in TrazasModelo(Ultimo) : MismasFilas(t, modelo) /\ NoDecreciente(t)

\* a zone without historical series was charted from a forecast fetched in
\* descending order
Wit_C13 ==
  /\ RecienProcesada
  /\ Len(hist) = 0
  /\ Len(modelo) > 1
  /\ modelo[1]["date"] > modelo[2]["date"]
  /\ Len(Ultimo.graficos) > 0 /\ Len(Ultimo.combinado) > 0
  /\ TrazasModelo(Ultimo) # {}

\* C14 as claimed: in the head charts of cota.py, when procesar_datos returned
\* a transition, every forecast row of the Metamodelo trace is dated strictly
\* after the transition.
Orig_C14 ==
  programa = "cota" =>
    \A e \in Filas(procesados) :
      e.fecha_transicion # None =>
        \A g \in Filas(e.graficos) : \A r \in Filas(g.modelo) :
          r["date"] > e.fecha_transicion

\* the column of the data behind a bar series of the comparison chart
ColumnaDe(campo) ==
  CASE campo = "step_in" -> "value_step_in"
    [] campo = "step_out" -> "value_step_out"
    [] campo = "step_rate" -> "value_step_rate"

\* the zones the comparison chart reports for a bar series: zonas, step_in_prom,
\* step_out_prom and step_rate_prom get one element per zone with rows
ZonasDelCampo(a, campo) == ZonasDe(a.comparacion)

\* C15 as claimed: in the component comparison a zone is reported for a field
\* only if some row of the zone carries that field.
Orig_C15 ==
  \A a \in AgregadosBalance :
    \A campo \in {"step_in", "step_out"} :
      \A z \in ZonasDelCampo(a, campo) :
        ColumnaDe(campo) \in Columns(Concat(DatosDe(z)))

Creciente(df) ==
  \A j \in DOMAIN df : \A k \in DOMAIN df : j < k => df[j]["date"] < df[k]["date"]

FechasDistintas(df) == Cardinality(Dates(df)) = Len(df)

\* C16 as claimed: the dates of the two series procesar_datos returns are
\* strictly increasing, whatever the fetched series.
Orig_C16 ==
  RecienProcesada =>
    Creciente(Ultimo.df_hist) /\ Creciente(Ultimo.df_modelo)

\* C16 amended: the dates of the two series procesar_datos returns are
\* non-decreasing; they are strictly increasing, hence unique, exactly when no
\* two fetched records of the series carry the same date.
Thm_C16 ==
  RecienProcesada =>
    /\ NoDecreciente(Ultimo.df_hist) /\ NoDecreciente(Ultimo.df_modelo)
    /\ Creciente(Ultimo.df_hist) <=> FechasDistintas(hist)
    /\ Creciente(Ultimo.df_modelo) <=> FechasDistintas(modelo)

\* procesar_datos ran on a historical series with two records of one date and
\* returned both
Wit_C16 ==
  /\ RecienProcesada
  /\ Len(hist) > 1
  /\ hist[1]["date"] = hist[2]["date"] /\ hist[1] # hist[2]
  /\ Len(Ultimo.df_hist) = Len(hist)
  /\ ~Creciente(Ultimo.df_hist)

\* procesar_datos followed by the forecast filter of the per-zone charts
Reconciliar(h, m) ==
  LET p == procesar_datos(h, m)
  IN  [df_hist |-> p.df_hist, fecha_transicion |-> p.fecha_transicion,
       cola |-> DfFuturo(p.df_modelo, p.fecha_transicion)]

\* what the run made of the series it fetched for the zone
Reconciliado ==
  [df_hist |-> Ultimo.df_hist, fecha_transicion |-> Ultimo.fecha_transicion,
   cola |-> DfFuturo(Ultimo.df_modelo, Ultimo.fecha_transicion)]

\* the same rows with the same dates at the same places: equal but for the
\* order of rows of one date
IgualSalvoEmpates(a, b) ==
  /\ MismasFilas(a, b)
  /\ \A k \in DOMAIN a : a[k]["date"] = b[k]["date"]

\* C17 as claimed: on every reordering of the fetched series, the sorted one
\* included, procesar_datos and the forecast filter give the historical series,
\* the transition and the forecast tail the run obtained.
Orig_C17 ==
  RecienProcesada =>
    \A h \in Permutaciones(hist) : \A m \in Permutaciones(modelo) :
      Reconciliar(h, m) = Reconciliado

\* C17 amended: on every reordering of the fetched series procesar_datos and
\* the forecast filter give the same transition, and a historical series and a
\* forecast tail that differ from those the run obtained at most in the order
\* of rows of one date; they are identical when the dates of a series are
\* distinct.
Thm_C17 ==
  RecienProcesada =>
    \A h \in Permutaciones(hist) : \A m \in Permutaciones(modelo) :
      LET q == Reconciliar(h, m) IN
        /\ q.fecha_transicion = Reconciliado.fecha_transicion
        /\ IgualSalvoEmpates(q.df_hist, Reconciliado.df_hist)
        /\ IgualSalvoEmpates(q.cola, Reconciliado.cola)
        /\ FechasDistintas(hist) => q.df_hist = Reconciliado.df_hist
        /\ FechasDistintas(modelo) => q.cola = Reconciliado.cola

\* procesar_datos ran on a historical series of two different records and a
\* forecast fetched in descending order, of which the filter kept a part
Wit_C17 ==
  /\ RecienProcesada
  /\ Len(hist) > 1 /\ hist[1] # hist[2]
  /\ Len(modelo) > 1 /\ modelo[1]["date"] > modelo[2]["date"]
  /\ Reconciliado.fecha_transicion # None
  /\ Len(Reconciliado.cola) > 0
  /\ Len(Reconciliado.cola) < Len(modelo)

\* C18: within a run no endpoint is requested twice for the same zone or
\* well: the requests issued so far differ pairwise in endpoint or in zone,
\* whatever their status, so a failed request is not issued again.
Thm_C18 ==
  \A j \in DOMAIN peticiones : \A k \in DOMAIN peticiones :
    (j < k) =>
      ~(/\ peticiones[j].url = peticiones[k].url
        /\ peticiones[j].zona = peticiones[k].zona)

\* a run over two zones ended after a time-series request of the first zone
\* had failed
Wit_C18 ==
  /\ programa \in {"balance", "cota"}
  /\ pc = "fin"
  /\ Len(zonas) > 1
  /\ \E k \in DOMAIN peticiones :
       /\ peticiones[k].zona = zonas[1]
       /\ peticiones[k].status # 200
       /\ k < Len(peticiones)

\* the zones and wells of which some fetch of the run returned records
ConRegistros ==
  { peticiones[k].zona : k \in { n \in DOMAIN peticiones : peticiones[n].con_filas } }

\* the zones and wells the run has issued a request for
Pedidas == { peticiones[k].zona : k \in DOMAIN peticiones } \ {""}

\* C19: a zone or well all of whose fetches came back failed or without
\* records has no file of its own: no variable chart, combined chart, head
\* chart, historical chart or forecast chart carries its name.
Thm_C19 ==
  \A z \in Pedidas \ ConRegistros :
    \A f \in Filas(archivos) : f.zona # z

\* a run ended in which one zone or well got a file and another, without any
\* record, had all its fetches
Wit_C19 ==
  /\ pc = "fin"
  /\ Pedidas \ ConRegistros # {}
  /\ \E f \in Filas(archivos) : f.zona \in ConRegistros

IndiceDe(zs, z) == CHOOSE k \in DOMAIN zs : zs[k] = z

\* the requests of time series follow the order of the listing
EnOrdenDeListado(pets, zs) ==
  \A j \in DOMAIN pets : \A k \in DOMAIN pets :
    (j < k /\ pets[j].zona # "" /\ pets[k].zona # "") =>
      /\ pets[j].zona \in Filas(zs) /\ pets[k].zona \in Filas(zs)
      /\ IndiceDe(zs, pets[j].zona) <= IndiceDe(zs, pets[k].zona)

\* the files a step writes
ArchivosNuevos == SubSeq(archivos', Len(archivos) + 1, Len(archivos'))

\* a step of balance.py or cota.py keeps the order of the listing
PasoEnOrden ==
  programa \in {"balance", "cota"} =>
    /\ EnOrdenDeListado(peticiones', zonas')
    /\ \A f \in Filas(ArchivosNuevos) :
         IF f.zona # ""
         THEN /\ f.zona = peticiones[Len(peticiones)].zona
              /\ peticiones' = peticiones
         ELSE /\ pc = "agregados" /\ pc' = "fin"
              /\ Len(procesados) = Len(zonas)
              /\ peticiones[Len(peticiones)].zona = zonas[Len(zonas)]
              /\ peticiones' = peticiones

\* C21: in balance.py and cota.py the zones are processed one after another
\* in listing order: the requests never go back to an earlier zone, a step
\* that writes the files of a zone writes them while that zone is the one
\* fetched last, hence before the first fetch of the next zone, and the
\* aggregate files are written in one step, after the loop has processed the
\* last zone of the listing, which ends the run.
Thm_C21 == [][PasoEnOrden]_vars

\* a run of balance.py over two zones wrote files for both and the aggregates
Wit_C21 ==
  /\ programa = "balance"
  /\ pc = "fin"
  /\ Len(zonas) > 1
  /\ \A k \in DOMAIN zonas : \E f \in Filas(archivos) : f.zona = zonas[k]
  /\ \E f \in Filas(archivos) : f.zona = ""

\* sal holds the rows of ent in ascending order of date, rows of one date in
\* the order they have in ent
OrdenEstable(ent, sal) ==
  /\ Len(sal) = Len(ent)
  /\ NoDecreciente(sal)
  /\ \E f \in [DOMAIN sal -> DOMAIN ent] :
       /\ \A k \in DOMAIN sal : sal[k] = ent[f[k]]
       /\ \A j \in DOMAIN sal : \A k \in DOMAIN sal :
            j < k => /\ f[j] # f[k]
                     /\ ent[f[j]]["date"] = ent[f[k]]["date"] => f[j] < f[k]

\* C22 as claimed: the sort of procesar_datos is stable, the rows of one date
\* keep the order in which the API returned them.
Orig_C22 ==
  RecienProcesada =>
    /\ OrdenEstable(hist, Ultimo.df_hist)
    /\ OrdenEstable(modelo, Ultimo.df_modelo)

\* a series holds two rows of one date
RepiteFecha(df) ==
  \E j \in DOMAIN df : \E k \in DOMAIN df : j < k /\ df[j]["date"] = df[k]["date"]

EstrictamenteCreciente(fechas) ==
  \A j \in DOMAIN fechas : \A k \in DOMAIN fechas : j < k => fechas[j] < fechas[k]

\* the forecast dates the evolution chart draws: those after the transition it
\* applies, all of them without one
FechasDibujadas(ev) ==
  { t \in TodasFechas("modelo") : ev.fecha_transicion = None \/ t > ev.fecha_transicion }

\* C23: the historical and the forecast sequence of the system-wide evolution
\* are strictly ascending in date, so no date occurs twice in either; the
\* historical one holds every date of a historical row of any zone and the
\* forecast one every date of a forecast row that the chart draws, also when
\* zones share dates and when a series repeats a date.
Thm_C23 ==
  \A a \in AgregadosBalance :
    LET ev == a.evolucion IN
      /\ EstrictamenteCreciente(ev.fechas_hist)
      /\ EstrictamenteCreciente(ev.fechas_futuro)
      /\ Filas(ev.fechas_hist) = TodasFechas("hist")
      /\ Filas(ev.fechas_futuro) = FechasDibujadas(ev)
      /\ Len(ev.valores_hist) = Len(ev.fechas_hist)
      /\ Len(ev.valores_futuro) = Len(ev.fechas_futuro)

\* two zones share a historical and a forecast date, series of both kinds
\* repeat a date, the forecast dates were met out of order and some are drawn
Wit_C23 ==
  /\ Len(datos_por_zona) = 2
  /\ \E a \in AgregadosBalance : Len(a.evolucion.fechas_futuro) > 0
  /\ \E e \in Filas(datos_por_zona) : RepiteFecha(e.df_hist)
  /\ \E e \in Filas(datos_por_zona) : RepiteFecha(e.df_modelo)
  /\ Dates(datos_por_zona[1].df_hist) \cap Dates(datos_por_zona[2].df_hist) # {}
  /\ Dates(datos_por_zona[1].df_modelo) \cap Dates(datos_por_zona[2].df_modelo) # {}
  /\ Len(datos_por_zona[1].df_modelo) > 0 /\ Len(datos_por_zona[2].df_modelo) > 0
  /\ datos_por_zona[1].df_modelo[1]["date"] > datos_por_zona[2].df_modelo[1]["date"]

\* the metadata requests of pronostico.py that failed, but for the one after
\* which the run aborted on a series without 'value'
InfoFallidas ==
  { k \in DOMAIN peticiones :
      /\ peticiones[k].url = "pozos-data"
      /\ peticiones[k].status # 200
      /\ ~(pc = "abortado" /\ k = Len(peticiones)) }

ConSeries(e) == Len(e.df_hist) > 0 \/ Len(e.df_modelo) > 0

ArchivosAgregados ==
  { Archivo("", "comparacion_componentes_zonas"), Archivo("", "balance_neto_zonas"),
    Archivo("", "evolucion_balance_total") }

\* C25: at the end of a run of balance.py every zone with a series with rows
\* has its combined file once and the file of a variable once if the variable
\* is a column of its historical or of its forecast series and not at all
\* otherwise, a zone without rows has no file, and each of the three aggregate
\* files is there once if some zone had rows and not at all otherwise.
Thm_C25 ==
  (programa = "balance" /\ pc = "fin") =>
    /\ \A k \in DOMAIN procesados :
         LET e == procesados[k] IN
           /\ Veces(archivos, Archivo(e.zona, "balance_combinado")) =
                (IF ConSeries(e) THEN 1 ELSE 0)
           /\ \A n \in DOMAIN Variables :
                Veces(archivos, Archivo(e.zona, NombreCorto(Variables[n]))) =
                  (IF ConSeries(e) /\ Variables[n] \in Columns(e.df_hist) \cup Columns(e.df_modelo)
                   THEN 1 ELSE 0)
    /\ \A f \in ArchivosAgregados :
         Veces(archivos, f) =
           (IF \E k \in DOMAIN procesados : ConSeries(procesados[k]) THEN 1 ELSE 0)

\* a finished run wrote the combined file of a zone, the file of a variable
\* that only its forecast carries, no file of a variable it lacks, and the
\* aggregates
Wit_C25 ==
  /\ programa = "balance" /\ pc = "fin"
  /\ \E k \in DOMAIN procesados :
       LET e == procesados[k] IN
         /\ "value_step_rate" \in Columns(e.df_modelo) \ Columns(e.df_hist)
         /\ "value_step_in" \notin Columns(e.df_hist) \cup Columns(e.df_modelo)
         /\ Archivo(e.zona, "balance_step_rate") \in Filas(archivos)
         /\ Archivo(e.zona, "balance_step_in") \notin Filas(archivos)
         /\ Archivo(e.zona, "balance_combinado") \in Filas(archivos)
  /\ ArchivosAgregados \subseteq Filas(archivos)

\* the request that opens the attempt of a zone or well
UrlIntento ==
  IF programa = "balance" THEN "balance-historico"
  ELSE IF programa = "pozos_historicos" THEN "pozos-data"
  ELSE "pronostico-pozos-data"

Intentos(z) ==
  { k \in DOMAIN peticiones :
      peticiones[k].zona = z /\ peticiones[k].url = UrlIntento }

\* the zones of the listing, for the wells scripts the example wells once the
\* listing let the run through
PorIntentar ==
  IF programa = "balance" THEN Filas(zonas)
  ELSE IF programa \in {"pozos_historicos", "pronostico"} /\ Len(zonas) > 0
       THEN Filas(pozos_ejemplo)
       ELSE {}

CadaUnoUnaVez == \A z \in PorIntentar : Cardinality(Intentos(z)) = 1

\* C26 as claimed: every run of balance.py, pozos_historicos.py and
\* pronostico.py terminates, and when it is over every zone of the listing,
\* or every example well, was attempted exactly once.
Orig_C26 == <>Terminado /\ [](Terminado => CadaUnoUnaVez)

\* the requests of series of wells that came back with rows, in order
Rendidos ==
  SelectSeq(peticiones,
            LAMBDA q : q.url = UrlIntento /\ q.status = 200 /\ q.con_filas)

ArchivoComparativo ==
  IF programa = "pozos_historicos" THEN Archivo("", "pozos_comparativo")
  ELSE Archivo("", "pronosticos_comparativo")

\* C27 as claimed: when a run of pozos_historicos.py or pronostico.py is over,
\* the comparative file exists if and only if some example well yielded a
\* series with rows, the comparative chart holds exactly those wells in the
\* order they were processed, and a well whose request failed or came back
\* without rows has no file and is not in the comparative chart.
Orig_C27 ==
  (programa \in ProgramasPozos /\ Terminado) =>
    /\ ArchivoComparativo \in Filas(archivos) <=> Len(Rendidos) > 0
    /\ Len(datos_por_zona) = Len(Rendidos)
    /\ \A k \in DOMAIN datos_por_zona : datos_por_zona[k].zona = Rendidos[k].zona
    /\ \A k \in DOMAIN peticiones :
         (peticiones[k].url = UrlIntento
            /\ ~(peticiones[k].status = 200 /\ peticiones[k].con_filas)) =>
           /\ \A f \in Filas(archivos) : f.zona # peticiones[k].zona
           /\ \A e \in Filas(datos_por_zona) : e.zona # peticiones[k].zona

\* the requests of series of wells, in order
PeticionesDePozos == SelectSeq(peticiones, LAMBDA q : q.url = UrlIntento)

EjemplosFijos == <<"Pozo_104_E809_N774", "Pozo_3_E797_N645", "Pozo_16_E752_N698">>

\* C28: in pozos_historicos.py and pronostico.py wells are requested only
\* after a listing that is not empty, the wells requested are the three fixed
\* example wells in their order, whatever the listing holds, a run that
\* returns after such a listing has requested all three, and every individual
\* file is the file of an example well.
Thm_C28 ==
  programa \in ProgramasPozos =>
    /\ Len(PeticionesDePozos) > 0 => Len(zonas) > 0
    /\ Len(PeticionesDePozos) <= Len(EjemplosFijos)
    /\ \A k \in DOMAIN PeticionesDePozos : PeticionesDePozos[k].zona = EjemplosFijos[k]
    /\ (pc = "fin" /\ Len(zonas) > 0) => Len(PeticionesDePozos) = Len(EjemplosFijos)
    /\ \A f \in Filas(archivos) : f.zona = "" \/ f.zona \in Filas(EjemplosFijos)

\* a finished run whose listing held none of the wells it requested and
\* charted
Wit_C28 ==
  /\ programa \in ProgramasPozos /\ pc = "fin"
  /\ Len(zonas) > 0
  /\ Len(PeticionesDePozos) = 3
  /\ \A k \in DOMAIN PeticionesDePozos : PeticionesDePozos[k].zona \notin Filas(zonas)
  /\ \E f \in Filas(archivos) : f.zona # "" /\ f.zona \notin Filas(zonas)

====
